---- MODULE Spec2Model ----
(***************************************************************************)
(* The scoring engine of job_eval.py: the lookup tables, the function      *)
(* calculate_ipe_score, the function score_to_level and the two user       *)
(* interface flows that call them.                                         *)
(*                                                                         *)
(* Units.  Ratings, Size, the keys of the tables and the intermediate      *)
(* Impact x Contribution value are Python numbers with half steps (1, 1.5, *)
(* 2, ...).  They are written here in TENTHS of a point, so that the       *)
(* Python key 2.5 is 25, the rating 1 is 10, the Size 13 is 130 and the    *)
(* intermediate value 10.5 is 105.  Points, totals, IPE scores and levels  *)
(* are plain integers, as in the source.  The multiples of 5 tenths are    *)
(* exactly representable binary floats, so the dictionary lookups of the   *)
(* source compare them exactly, as the integers here do.                   *)
(*                                                                         *)
(* Python's None is the empty tuple; a present value v is <<v>>.           *)
(* A Python dict is a function; a key that is missing is not in DOMAIN.    *)
(***************************************************************************)
EXTENDS Integers, Sequences, FiniteSets, TLC

(***************************************************************************)
(* Bounds of the inputs that the model explores: ratings run from          *)
(* -BelowZero to MaxRating and Size from -BelowZero to MaxSize (tenths of  *)
(* a point); score_to_level is called with the scores of its bands and     *)
(* ScoreMargin more on either side; NumThreads threads evaluate            *)
(* concurrently, each at most MaxCalls times.                              *)
(***************************************************************************)
BelowZero == 5
NumThreads == 2
MaxCalls == 2
MaxRating == 85
MaxSize == 145
ScoreMargin == 5

(***************************************************************************)
(* The lookup tables, lines 285-374 of job_eval.py.                        *)
(***************************************************************************)
IMPACT_CONTRIBUTION_TABLE ==
  10 :> (10 :> 10 @@ 15 :> 15 @@ 20 :> 20 @@ 25 :> 25 @@ 30 :> 30 @@ 35 :> 35 @@ 40 :> 40
      @@ 45 :> 45 @@ 50 :> 50)
  @@ 15 :> (10 :> 25 @@ 20 :> 30 @@ 25 :> 35 @@ 30 :> 40 @@ 35 :> 45 @@ 40 :> 50 @@ 45 :> 55
      @@ 50 :> 65)
  @@ 20 :> (10 :> 40 @@ 15 :> 45 @@ 20 :> 50 @@ 25 :> 55 @@ 30 :> 60 @@ 35 :> 65 @@ 40 :> 70
      @@ 45 :> 75 @@ 50 :> 80)
  @@ 25 :> (10 :> 55 @@ 15 :> 60 @@ 20 :> 65 @@ 25 :> 70 @@ 30 :> 75 @@ 35 :> 80 @@ 40 :> 85
      @@ 45 :> 90 @@ 50 :> 95)
  @@ 30 :> (10 :> 70 @@ 15 :> 75 @@ 20 :> 80 @@ 25 :> 85 @@ 30 :> 90 @@ 35 :> 95 @@ 40 :> 100
      @@ 45 :> 105 @@ 50 :> 110)
  @@ 35 :> (10 :> 85 @@ 15 :> 90 @@ 20 :> 95 @@ 25 :> 100 @@ 30 :> 105 @@ 35 :> 110 @@ 40 :> 115
      @@ 45 :> 120 @@ 50 :> 125)
  @@ 40 :> (10 :> 100 @@ 15 :> 105 @@ 20 :> 110 @@ 25 :> 115 @@ 30 :> 120 @@ 35 :> 125 @@ 40 :> 130
      @@ 45 :> 135 @@ 50 :> 140)
  @@ 45 :> (10 :> 115 @@ 15 :> 120 @@ 20 :> 125 @@ 25 :> 130 @@ 30 :> 135 @@ 35 :> 140 @@ 40 :> 145
      @@ 45 :> 150 @@ 50 :> 155)
  @@ 50 :> (10 :> 130 @@ 15 :> 135 @@ 20 :> 140 @@ 25 :> 145 @@ 30 :> 150 @@ 35 :> 155 @@ 40 :> 160
      @@ 45 :> 165 @@ 50 :> 170)

IMPACT_SIZE_TABLE ==
  10 :> (10 :> 5 @@ 20 :> 5 @@ 30 :> 5 @@ 40 :> 5 @@ 50 :> 5 @@ 60 :> 5 @@ 70 :> 5 @@ 80 :> 5
      @@ 90 :> 5 @@ 100 :> 5 @@ 110 :> 5 @@ 120 :> 5 @@ 130 :> 5)
  @@ 15 :> (10 :> 10 @@ 20 :> 10 @@ 30 :> 10 @@ 40 :> 10 @@ 50 :> 10 @@ 60 :> 10 @@ 70 :> 10
      @@ 80 :> 10 @@ 90 :> 10 @@ 100 :> 10 @@ 110 :> 10 @@ 120 :> 10 @@ 130 :> 10)
  @@ 20 :> (10 :> 15 @@ 20 :> 15 @@ 30 :> 15 @@ 40 :> 15 @@ 50 :> 15 @@ 60 :> 15 @@ 70 :> 15
      @@ 80 :> 15 @@ 90 :> 15 @@ 100 :> 15 @@ 110 :> 15 @@ 120 :> 15 @@ 130 :> 15)
  @@ 25 :> (10 :> 20 @@ 20 :> 20 @@ 30 :> 20 @@ 40 :> 20 @@ 50 :> 20 @@ 60 :> 20 @@ 70 :> 20
      @@ 80 :> 20 @@ 90 :> 20 @@ 100 :> 20 @@ 110 :> 20 @@ 120 :> 20 @@ 130 :> 20)
  @@ 30 :> (10 :> 25 @@ 20 :> 25 @@ 30 :> 25 @@ 40 :> 25 @@ 50 :> 25 @@ 60 :> 25 @@ 70 :> 25
      @@ 80 :> 25 @@ 90 :> 25 @@ 100 :> 25 @@ 110 :> 25 @@ 120 :> 25 @@ 130 :> 25)
  @@ 35 :> (10 :> 31 @@ 20 :> 32 @@ 30 :> 32 @@ 40 :> 33 @@ 50 :> 33 @@ 60 :> 34 @@ 70 :> 34
      @@ 80 :> 35 @@ 90 :> 35 @@ 100 :> 36 @@ 110 :> 36 @@ 120 :> 37 @@ 130 :> 37)
  @@ 40 :> (10 :> 37 @@ 20 :> 38 @@ 30 :> 39 @@ 40 :> 40 @@ 50 :> 41 @@ 60 :> 42 @@ 70 :> 43
      @@ 80 :> 44 @@ 90 :> 45 @@ 100 :> 46 @@ 110 :> 47 @@ 120 :> 48 @@ 130 :> 49)
  @@ 45 :> (10 :> 41 @@ 20 :> 43 @@ 30 :> 44 @@ 40 :> 46 @@ 50 :> 47 @@ 60 :> 49 @@ 70 :> 50
      @@ 80 :> 52 @@ 90 :> 53 @@ 100 :> 55 @@ 110 :> 56 @@ 120 :> 58 @@ 130 :> 59)
  @@ 50 :> (10 :> 44 @@ 20 :> 46 @@ 30 :> 48 @@ 40 :> 50 @@ 50 :> 52 @@ 60 :> 54 @@ 70 :> 56
      @@ 80 :> 58 @@ 90 :> 60 @@ 100 :> 62 @@ 110 :> 64 @@ 120 :> 66 @@ 130 :> 68)
  @@ 55 :> (10 :> 50 @@ 20 :> 53 @@ 30 :> 55 @@ 40 :> 58 @@ 50 :> 60 @@ 60 :> 63 @@ 70 :> 65
      @@ 80 :> 68 @@ 90 :> 70 @@ 100 :> 73 @@ 110 :> 75 @@ 120 :> 78 @@ 130 :> 80)
  @@ 60 :> (10 :> 56 @@ 20 :> 59 @@ 30 :> 62 @@ 40 :> 65 @@ 50 :> 68 @@ 60 :> 71 @@ 70 :> 74
      @@ 80 :> 77 @@ 90 :> 80 @@ 100 :> 83 @@ 110 :> 86 @@ 120 :> 89 @@ 130 :> 92)
  @@ 65 :> (10 :> 60 @@ 20 :> 64 @@ 30 :> 67 @@ 40 :> 71 @@ 50 :> 74 @@ 60 :> 78 @@ 70 :> 81
      @@ 80 :> 85 @@ 90 :> 88 @@ 100 :> 92 @@ 110 :> 95 @@ 120 :> 99 @@ 130 :> 102)
  @@ 70 :> (10 :> 63 @@ 20 :> 67 @@ 30 :> 71 @@ 40 :> 75 @@ 50 :> 79 @@ 60 :> 83 @@ 70 :> 87
      @@ 80 :> 91 @@ 90 :> 95 @@ 100 :> 99 @@ 110 :> 103 @@ 120 :> 107 @@ 130 :> 111)
  @@ 75 :> (10 :> 72 @@ 20 :> 76 @@ 30 :> 80 @@ 40 :> 85 @@ 50 :> 89 @@ 60 :> 93 @@ 70 :> 97
      @@ 80 :> 102 @@ 90 :> 106 @@ 100 :> 110 @@ 110 :> 114 @@ 120 :> 119 @@ 130 :> 123)
  @@ 80 :> (10 :> 80 @@ 20 :> 85 @@ 30 :> 89 @@ 40 :> 94 @@ 50 :> 98 @@ 60 :> 103 @@ 70 :> 107
      @@ 80 :> 112 @@ 90 :> 116 @@ 100 :> 121 @@ 110 :> 125 @@ 120 :> 130 @@ 130 :> 134)
  @@ 85 :> (10 :> 84 @@ 20 :> 89 @@ 30 :> 94 @@ 40 :> 99 @@ 50 :> 104 @@ 60 :> 109 @@ 70 :> 114
      @@ 80 :> 119 @@ 90 :> 124 @@ 100 :> 129 @@ 110 :> 134 @@ 120 :> 139 @@ 130 :> 144)
  @@ 90 :> (10 :> 87 @@ 20 :> 93 @@ 30 :> 98 @@ 40 :> 104 @@ 50 :> 109 @@ 60 :> 115 @@ 70 :> 120
      @@ 80 :> 126 @@ 90 :> 131 @@ 100 :> 137 @@ 110 :> 142 @@ 120 :> 148 @@ 130 :> 153)
  @@ 95 :> (10 :> 96 @@ 20 :> 102 @@ 30 :> 107 @@ 40 :> 113 @@ 50 :> 119 @@ 60 :> 125 @@ 70 :> 130
      @@ 80 :> 136 @@ 90 :> 142 @@ 100 :> 148 @@ 110 :> 153 @@ 120 :> 159 @@ 130 :> 165)
  @@ 100 :> (10 :> 104 @@ 20 :> 110 @@ 30 :> 116 @@ 40 :> 122 @@ 50 :> 128 @@ 60 :> 134 @@ 70 :> 140
      @@ 80 :> 146 @@ 90 :> 152 @@ 100 :> 158 @@ 110 :> 164 @@ 120 :> 170 @@ 130 :> 176)
  @@ 105 :> (10 :> 108 @@ 20 :> 115 @@ 30 :> 121 @@ 40 :> 128 @@ 50 :> 134 @@ 60 :> 141 @@ 70 :> 147
      @@ 80 :> 154 @@ 90 :> 160 @@ 100 :> 167 @@ 110 :> 173 @@ 120 :> 180 @@ 130 :> 186)
  @@ 110 :> (10 :> 111 @@ 20 :> 118 @@ 30 :> 125 @@ 40 :> 132 @@ 50 :> 139 @@ 60 :> 146 @@ 70 :> 153
      @@ 80 :> 160 @@ 90 :> 167 @@ 100 :> 174 @@ 110 :> 181 @@ 120 :> 188 @@ 130 :> 195)
  @@ 115 :> (10 :> 120 @@ 20 :> 128 @@ 30 :> 135 @@ 40 :> 143 @@ 50 :> 150 @@ 60 :> 158 @@ 70 :> 165
      @@ 80 :> 173 @@ 90 :> 180 @@ 100 :> 188 @@ 110 :> 195 @@ 120 :> 203 @@ 130 :> 210)
  @@ 120 :> (10 :> 128 @@ 20 :> 136 @@ 30 :> 144 @@ 40 :> 152 @@ 50 :> 160 @@ 60 :> 168 @@ 70 :> 176
      @@ 80 :> 184 @@ 90 :> 192 @@ 100 :> 200 @@ 110 :> 208 @@ 120 :> 216 @@ 130 :> 224)
  @@ 125 :> (10 :> 132 @@ 20 :> 141 @@ 30 :> 149 @@ 40 :> 158 @@ 50 :> 166 @@ 60 :> 175 @@ 70 :> 183
      @@ 80 :> 192 @@ 90 :> 200 @@ 100 :> 209 @@ 110 :> 217 @@ 120 :> 226 @@ 130 :> 234)
  @@ 130 :> (10 :> 135 @@ 20 :> 144 @@ 30 :> 153 @@ 40 :> 162 @@ 50 :> 171 @@ 60 :> 180 @@ 70 :> 189
      @@ 80 :> 198 @@ 90 :> 207 @@ 100 :> 216 @@ 110 :> 225 @@ 120 :> 234 @@ 130 :> 243)
  @@ 135 :> (10 :> 141 @@ 20 :> 151 @@ 30 :> 160 @@ 40 :> 170 @@ 50 :> 179 @@ 60 :> 189 @@ 70 :> 198
      @@ 80 :> 208 @@ 90 :> 217 @@ 100 :> 227 @@ 110 :> 236 @@ 120 :> 246 @@ 130 :> 255)
  @@ 140 :> (10 :> 147 @@ 20 :> 157 @@ 30 :> 167 @@ 40 :> 177 @@ 50 :> 187 @@ 60 :> 197 @@ 70 :> 207
      @@ 80 :> 217 @@ 90 :> 227 @@ 100 :> 237 @@ 110 :> 247 @@ 120 :> 257 @@ 130 :> 267)
  @@ 145 :> (10 :> 151 @@ 20 :> 162 @@ 30 :> 172 @@ 40 :> 183 @@ 50 :> 193 @@ 60 :> 204 @@ 70 :> 214
      @@ 80 :> 225 @@ 90 :> 235 @@ 100 :> 246 @@ 110 :> 256 @@ 120 :> 268 @@ 130 :> 280)
  @@ 150 :> (10 :> 155 @@ 20 :> 166 @@ 30 :> 177 @@ 40 :> 188 @@ 50 :> 199 @@ 60 :> 210 @@ 70 :> 221
      @@ 80 :> 232 @@ 90 :> 243 @@ 100 :> 254 @@ 110 :> 265 @@ 120 :> 279 @@ 130 :> 292)
  @@ 155 :> (10 :> 162 @@ 20 :> 174 @@ 30 :> 185 @@ 40 :> 197 @@ 50 :> 208 @@ 60 :> 220 @@ 70 :> 231
      @@ 80 :> 243 @@ 90 :> 254 @@ 100 :> 267 @@ 110 :> 279 @@ 120 :> 293 @@ 130 :> 307)
  @@ 160 :> (10 :> 168 @@ 20 :> 180 @@ 30 :> 192 @@ 40 :> 204 @@ 50 :> 216 @@ 60 :> 228 @@ 70 :> 240
      @@ 80 :> 252 @@ 90 :> 264 @@ 100 :> 279 @@ 110 :> 293 @@ 120 :> 308 @@ 130 :> 322)
  @@ 165 :> (10 :> 172 @@ 20 :> 185 @@ 30 :> 197 @@ 40 :> 210 @@ 50 :> 222 @@ 60 :> 235 @@ 70 :> 247
      @@ 80 :> 261 @@ 90 :> 275 @@ 100 :> 290 @@ 110 :> 305 @@ 120 :> 320 @@ 130 :> 335)
  @@ 170 :> (10 :> 176 @@ 20 :> 189 @@ 30 :> 202 @@ 40 :> 215 @@ 50 :> 228 @@ 60 :> 241 @@ 70 :> 254
      @@ 80 :> 270 @@ 90 :> 285 @@ 100 :> 301 @@ 110 :> 316 @@ 120 :> 332 @@ 130 :> 347)

\* Variant: the entry 35 of row 2 typed as 53.
COMMUNICATION_FRAME_TABLE_typo ==
  10 :> (10 :> 10 @@ 20 :> 18 @@ 30 :> 25 @@ 40 :> 30)
  @@ 20 :> (10 :> 22 @@ 20 :> 33 @@ 30 :> 53 @@ 40 :> 45)
  @@ 30 :> (10 :> 33 @@ 20 :> 40 @@ 30 :> 50 @@ 40 :> 55)
  @@ 40 :> (10 :> 45 @@ 20 :> 55 @@ 30 :> 65 @@ 40 :> 75)
  @@ 50 :> (10 :> 60 @@ 20 :> 70 @@ 30 :> 80 @@ 40 :> 95)

COMMUNICATION_FRAME_TABLE ==
  10 :> (10 :> 10 @@ 20 :> 18 @@ 30 :> 25 @@ 40 :> 30)
  @@ 20 :> (10 :> 22 @@ 20 :> 33 @@ 30 :> 35 @@ 40 :> 45)
  @@ 30 :> (10 :> 33 @@ 20 :> 40 @@ 30 :> 50 @@ 40 :> 55)
  @@ 40 :> (10 :> 45 @@ 20 :> 55 @@ 30 :> 65 @@ 40 :> 75)
  @@ 50 :> (10 :> 60 @@ 20 :> 70 @@ 30 :> 80 @@ 40 :> 95)

INNOVATION_COMPLEXITY_TABLE ==
  10 :> (10 :> 10 @@ 20 :> 13 @@ 30 :> 18 @@ 40 :> 25)
  @@ 20 :> (10 :> 18 @@ 20 :> 23 @@ 30 :> 25 @@ 40 :> 30)
  @@ 30 :> (10 :> 33 @@ 20 :> 38 @@ 30 :> 40 @@ 40 :> 45)
  @@ 40 :> (10 :> 45 @@ 20 :> 53 @@ 30 :> 55 @@ 40 :> 65)
  @@ 50 :> (10 :> 60 @@ 20 :> 75 @@ 30 :> 80 @@ 40 :> 95)
  @@ 60 :> (10 :> 80 @@ 20 :> 95 @@ 30 :> 110 @@ 40 :> 140)

KNOWLEDGE_TEAMS_TABLE ==
  10 :> (10 :> 15 @@ 15 :> 23 @@ 20 :> 30 @@ 25 :> 45 @@ 30 :> 60)
  @@ 20 :> (10 :> 30 @@ 15 :> 40 @@ 20 :> 48 @@ 25 :> 63 @@ 30 :> 78)
  @@ 30 :> (10 :> 50 @@ 15 :> 58 @@ 20 :> 65 @@ 25 :> 80 @@ 30 :> 95)
  @@ 40 :> (10 :> 63 @@ 15 :> 70 @@ 20 :> 78 @@ 25 :> 93 @@ 30 :> 108)
  @@ 50 :> (10 :> 75 @@ 15 :> 83 @@ 20 :> 90 @@ 25 :> 105 @@ 30 :> 120)
  @@ 60 :> (10 :> 90 @@ 15 :> 113 @@ 20 :> 125 @@ 25 :> 138 @@ 30 :> 150)
  @@ 70 :> (10 :> 113 @@ 15 :> 131 @@ 20 :> 148 @@ 25 :> 161 @@ 30 :> 173)
  @@ 80 :> (10 :> 180 @@ 15 :> 198 @@ 20 :> 215 @@ 25 :> 228 @@ 30 :> 240)

BREADTH_TABLE ==
  10 :> 0 @@ 15 :> 5 @@ 20 :> 10 @@ 25 :> 15 @@ 30 :> 20

\* Variant: the band of the scores 58 and 59 written with level 10.
IPE_LEVEL_MAPPING_level_9_skipped ==
  << <<40, 41, 1>>, <<42, 43, 2>>, <<44, 45, 3>>, <<46, 47, 4>>,
     <<48, 50, 5>>, <<51, 52, 6>>, <<53, 55, 7>>, <<56, 57, 8>>,
     <<58, 59, 10>>, <<60, 61, 10>>, <<62, 65, 11>>, <<66, 73, 12>> >>

IPE_LEVEL_MAPPING ==
  << <<40, 41, 1>>,
     <<42, 43, 2>>,
     <<44, 45, 3>>,
     <<46, 47, 4>>,
     <<48, 50, 5>>,
     <<51, 52, 6>>,
     <<53, 55, 7>>,
     <<56, 57, 8>>,
     <<58, 59, 9>>,
     <<60, 61, 10>>,
     <<62, 65, 11>>,
     <<66, 73, 12>> >>

(***************************************************************************)
(* Python values.                                                          *)
(***************************************************************************)
None == << >>

Some(v) == << v >>

EmptyDict == << >>

\* dict.get(key, default): the stored value, or the default when the key is
\* missing.  The dictionary is only read.
Get(dict, key, default) == IF key \in DOMAIN dict THEN dict[key] ELSE default

\* int(x): truncation towards zero, the result again in tenths of a point
\* (int(3.5) = 3 is written int(35) = 30; int(-0.5) = 0 is written int(-5) = 0).
int(x) == IF x >= 0 THEN 10 * (x \div 10) ELSE -(10 * ((-x) \div 10))

\* int(num / den) for a positive den: float division, then truncation
\* towards zero.
IntOfQuotient(num, den) ==
  IF num >= 0 THEN num \div den ELSE -((-num) \div den)

\* The truth value Python gives an "int or None" in an if statement.
Truthy(v) == v # None /\ v[1] # 0

(***************************************************************************)
(* The module-level tables as the process holds them after import.  The    *)
(* assignments of lines 285-374 bind literals; no statement of the module  *)
(* inspects the level mapping before or after binding it.                  *)
(***************************************************************************)
\* The bands of mapping follow one another without gap or overlap.
Consistent(mapping) ==
  /\ \A i \in 1..Len(mapping) : mapping[i][1] <= mapping[i][2]
  /\ \A i \in 1..(Len(mapping) - 1) : mapping[i + 1][1] = mapping[i][2] + 1

\* Variant: the import fails on a mapping with a gap or an overlap.
load_outcome_validated(mapping) ==
  IF Consistent(mapping) THEN "loaded" ELSE "failed"

\* The outcome of IPE_LEVEL_MAPPING = [...] at import, for any list of
\* bands written there: the name is bound.
load_outcome(mapping) == "loaded"

LoadedTables ==
  [ IMPACT_CONTRIBUTION_TABLE   |-> IMPACT_CONTRIBUTION_TABLE,
    IMPACT_SIZE_TABLE           |-> IMPACT_SIZE_TABLE,
    COMMUNICATION_FRAME_TABLE   |-> COMMUNICATION_FRAME_TABLE,
    INNOVATION_COMPLEXITY_TABLE |-> INNOVATION_COMPLEXITY_TABLE,
    KNOWLEDGE_TEAMS_TABLE       |-> KNOWLEDGE_TEAMS_TABLE,
    BREADTH_TABLE               |-> BREADTH_TABLE,
    IPE_LEVEL_MAPPING           |-> IPE_LEVEL_MAPPING ]

(***************************************************************************)
(* calculate_ipe_score, lines 594-640, one definition per statement.       *)
(***************************************************************************)
\* impact = int(ratings.get("impact", 1))
impact(r) == int(Get(r, "impact", 10))

\* Variant: ratings.get("contribution", 0), the default of the callers.
contribution_default_0(r) == Get(r, "contribution", 0)

\* contribution = ratings.get("contribution", 1)
contribution(r) == Get(r, "contribution", 10)

\* Variant: 0 as the value of a missing entry, as in the other lookups.
intermediate_value_default_0(t, r) ==
  Get(Get(t.IMPACT_CONTRIBUTION_TABLE, impact(r), EmptyDict), contribution(r), 0)

\* intermediate_value =
\*     IMPACT_CONTRIBUTION_TABLE.get(impact, {}).get(contribution, 1)
intermediate_value(t, r) ==
  Get(Get(t.IMPACT_CONTRIBUTION_TABLE, impact(r), EmptyDict), contribution(r), 10)

\* impact_contrib_size_pts =
\*     IMPACT_SIZE_TABLE.get(intermediate_value, {}).get(int(size), 0)
\* Variant: the column key is size as it is, int() left out.
impact_size_lookup_exact_size(t, iv, s) ==
  Get(Get(t.IMPACT_SIZE_TABLE, iv, EmptyDict), s, 0)

\* The lookup of that statement for the intermediate value iv.
impact_size_lookup(t, iv, s) ==
  Get(Get(t.IMPACT_SIZE_TABLE, iv, EmptyDict), int(s), 0)

impact_contrib_size_pts(t, r, s) ==
  impact_size_lookup(t, intermediate_value(t, r), s)

\* Variant: int() left out, the row key is the rating as it is.
comm_frame_pts_exact_row(t, r) ==
  Get(Get(t.COMMUNICATION_FRAME_TABLE, Get(r, "communication", 10), EmptyDict),
      Get(r, "frame", 10), 0)

\* Variant: the default 1 of the intermediate lookup copied to this lookup.
comm_frame_pts_default_1(t, r) ==
  Get(Get(t.COMMUNICATION_FRAME_TABLE, int(Get(r, "communication", 10)), EmptyDict),
      Get(r, "frame", 10), 1)

\* comm_frame_pts = COMMUNICATION_FRAME_TABLE.get(
\*     int(ratings.get("communication", 1)), {}).get(ratings.get("frame", 1), 0)
comm_frame_pts(t, r) ==
  Get(Get(t.COMMUNICATION_FRAME_TABLE, int(Get(r, "communication", 10)), EmptyDict),
      Get(r, "frame", 10), 0)

\* Variant: the column key truncated like the row key, int(complexity).
innov_complex_pts_int_complexity(t, r) ==
  Get(Get(t.INNOVATION_COMPLEXITY_TABLE, int(Get(r, "innovation", 10)), EmptyDict),
      int(Get(r, "complexity", 10)), 0)

\* innov_complex_pts = INNOVATION_COMPLEXITY_TABLE.get(
\*     int(ratings.get("innovation", 1)), {}).get(ratings.get("complexity", 1), 0)
innov_complex_pts(t, r) ==
  Get(Get(t.INNOVATION_COMPLEXITY_TABLE, int(Get(r, "innovation", 10)), EmptyDict),
      Get(r, "complexity", 10), 0)

\* Variant: the row key is the rating as it is, int() left out.
knowledge_teams_pts_exact_row(t, r) ==
  Get(Get(t.KNOWLEDGE_TEAMS_TABLE, Get(r, "knowledge", 10), EmptyDict),
      Get(r, "teams", 10), 0)

\* Variant: the column key truncated like the row key, int(teams).
knowledge_teams_pts_int_teams(t, r) ==
  Get(Get(t.KNOWLEDGE_TEAMS_TABLE, int(Get(r, "knowledge", 10)), EmptyDict),
      int(Get(r, "teams", 10)), 0)

\* knowledge_teams_pts = KNOWLEDGE_TEAMS_TABLE.get(
\*     int(ratings.get("knowledge", 1)), {}).get(ratings.get("teams", 1), 0)
knowledge_teams_pts(t, r) ==
  Get(Get(t.KNOWLEDGE_TEAMS_TABLE, int(Get(r, "knowledge", 10)), EmptyDict),
      Get(r, "teams", 10), 0)

\* Variant: -1 as the mark of a missing Breadth.
breadth_pts_default_minus_1(t, r) ==
  Get(t.BREADTH_TABLE, Get(r, "breadth", 10), -1)

\* breadth_pts = BREADTH_TABLE.get(ratings.get("breadth", 1), 0)
breadth_pts(t, r) == Get(t.BREADTH_TABLE, Get(r, "breadth", 10), 0)

\* Variant: breadth_pts left out of the sum.
total_pts_without_breadth(ics, cf, ic, kt, b) == ics + cf + ic + kt

\* total_pts = (impact_contrib_size_pts + comm_frame_pts + innov_complex_pts +
\*              knowledge_teams_pts + breadth_pts)
total_pts(ics, cf, ic, kt, b) == ics + cf + ic + kt + b

\* Variant: the offset + 40 left out, so that a total from 27 to 50 scores 0.
ipe_score_of_without_offset(total) ==
  IF total > 26
    THEN Some(IntOfQuotient(total - 26, 25))
    ELSE None

\* Variant: round(...) in place of int(...), the nearest integer.
ipe_score_of_rounded(total) ==
  IF total > 26
    THEN Some((2 * ((total - 26) + 40 * 25) + 25) \div 50)
    ELSE None

\* Variant: the test total_pts > 26 left out.
ipe_score_of_unguarded(total) ==
  Some(IntOfQuotient((total - 26) + 40 * 25, 25))

\* if total_pts > 26: ipe_score = int((total_pts - 26) / 25 + 40)
\* else:              ipe_score = None
\* (x / 25 + 40 is (x + 40 * 25) / 25.)
ipe_score_of(total) ==
  IF total > 26
    THEN Some(IntOfQuotient((total - 26) + 40 * 25, 25))
    ELSE None

\* calculate_ipe_score never raises for finite numbers: every read of the
\* ratings and every table lookup is a .get with a default, and there is no
\* validation of keys or values and no raise statement.
calculate_raises(r, s) == FALSE

\* Variant: the first lookup keyed by size where the contribution belongs.
calculate_ipe_score_size_as_column(t, r, s) ==
  LET iv  == Get(Get(t.IMPACT_CONTRIBUTION_TABLE, impact(r), EmptyDict), int(s), 10)
      ics == Get(Get(t.IMPACT_SIZE_TABLE, iv, EmptyDict), int(s), 0)
      cf  == comm_frame_pts(t, r)
      ic  == innov_complex_pts(t, r)
      kt  == knowledge_teams_pts(t, r)
      b   == breadth_pts(t, r)
      tot == total_pts(ics, cf, ic, kt, b)
  IN  [ ipe_score |-> ipe_score_of(tot),
        breakdown |->
          [ impact_contribution_size |-> ics,
            intermediate_value       |-> iv,
            communication_frame      |-> cf,
            innovation_complexity    |-> ic,
            knowledge_teams          |-> kt,
            breadth                  |-> b,
            size                     |-> s,
            total                    |-> tot ] ]

\* The returned pair (ipe_score, breakdown).
calculate_ipe_score(t, r, s) ==
  LET ics == impact_contrib_size_pts(t, r, s)
      cf  == comm_frame_pts(t, r)
      ic  == innov_complex_pts(t, r)
      kt  == knowledge_teams_pts(t, r)
      b   == breadth_pts(t, r)
      tot == total_pts(ics, cf, ic, kt, b)
  IN  [ ipe_score |-> ipe_score_of(tot),
        breakdown |->
          [ impact_contribution_size |-> ics,
            intermediate_value       |-> intermediate_value(t, r),
            communication_frame      |-> cf,
            innovation_complexity    |-> ic,
            knowledge_teams          |-> kt,
            breadth                  |-> b,
            size                     |-> s,
            total                    |-> tot ] ]

\* Variant: the row of the first lookup taken with .setdefault(impact, {}),
\* which stores the empty row when the key is missing.
tables_after_calculate_setdefault(t, r, s) ==
  IF impact(r) \in DOMAIN t.IMPACT_CONTRIBUTION_TABLE THEN t
  ELSE [ t EXCEPT !.IMPACT_CONTRIBUTION_TABLE = @ @@ (impact(r) :> EmptyDict) ]

\* Variant: the row of the first lookup taken with .pop(impact, {}), which
\* removes it from the table.
tables_after_calculate_pop(t, r, s) ==
  [ t EXCEPT !.IMPACT_CONTRIBUTION_TABLE =
      [ k \in DOMAIN t.IMPACT_CONTRIBUTION_TABLE \ { impact(r) } |->
          t.IMPACT_CONTRIBUTION_TABLE[k] ] ]

\* The tables after a call of calculate_ipe_score: the function reads them
\* with .get only, which never inserts or removes a key.
tables_after_calculate(t, r, s) == t

(***************************************************************************)
(* score_to_level, lines 642-647.                                          *)
(***************************************************************************)
RECURSIVE level_from_exclusive(_, _, _)
\* Variant: lo < ipe_score <= hi, the lower end of a band left out.
level_from_exclusive(mapping, score, i) ==
  IF i > Len(mapping) THEN 1
  ELSE IF mapping[i][1] < score /\ score <= mapping[i][2] THEN mapping[i][3]
  ELSE level_from_exclusive(mapping, score, i + 1)

RECURSIVE level_from_last_level(_, _, _)
\* Variant: "return level" after the loop, the level of the last band.
level_from_last_level(mapping, score, i) ==
  IF i > Len(mapping) THEN mapping[Len(mapping)][3]
  ELSE IF mapping[i][1] <= score /\ score <= mapping[i][2] THEN mapping[i][3]
  ELSE level_from_last_level(mapping, score, i + 1)

RECURSIVE level_from(_, _, _)
\* for lo, hi, level in IPE_LEVEL_MAPPING: if lo <= ipe_score <= hi:
\*     return level
\* return 1
level_from(mapping, score, i) ==
  IF i > Len(mapping) THEN 1
  ELSE IF mapping[i][1] <= score /\ score <= mapping[i][2] THEN mapping[i][3]
  ELSE level_from(mapping, score, i + 1)

score_to_level(t, score) == level_from(t.IPE_LEVEL_MAPPING, score, 1)

(***************************************************************************)
(* The two callers.  Pasted-description flow of main, lines 878-906, and   *)
(* evaluate_from_structured_inputs, lines 957-976.  Both branch on the     *)
(* truth value of the returned score; display_evaluation_results (line     *)
(* 656) computes the level of the score it is given.                       *)
(***************************************************************************)
\* level = score_to_level(ipe_score), first statement of
\* display_evaluation_results.
display_evaluation_results(t, score) ==
  [ ui |-> "results", level |-> Some(score_to_level(t, score[1])) ]

\* Variant: the level left out of the exported record.
results_json_of_without_level(score, lvl, bd, r) ==
  [ title |-> "title", ipe_score |-> score, total_points |-> bd.total,
    ratings |-> r, justifications |-> "justifications",
    guardrails |-> "guardrails", breakdown |-> bd ]

\* results_json = {"title": ..., "ipe_score": ..., "level": ...,
\*                 "total_points": breakdown["total"], "ratings": ...,
\*                 "justifications": ..., "guardrails": ..., "breakdown": ...}
\* of display_evaluation_results, the record offered for download.  The
\* three texts are not modelled; each stands as its own name.
results_json_of(score, lvl, bd, r) ==
  [ title |-> "title", ipe_score |-> score, level |-> lvl,
    total_points |-> bd.total, ratings |-> r,
    justifications |-> "justifications", guardrails |-> "guardrails",
    breakdown |-> bd ]

\* Variant: a missing score shown as the lowest level instead of an error.
main_outcome_level_1(t, score) ==
  IF Truthy(score)
    THEN display_evaluation_results(t, score)
    ELSE [ ui |-> "results", level |-> Some(1) ]

\* if ipe_score: display_evaluation_results(...)
\* else: st.error("Could not calculate valid IPE score. Check your inputs.")
main_outcome(t, score) ==
  IF Truthy(score)
    THEN display_evaluation_results(t, score)
    ELSE [ ui |-> "error", level |-> None ]

\* if ipe_score: level = score_to_level(ipe_score);
\*               display_evaluation_results(...)
\* else: st.error("Could not calculate valid IPE score. Check your inputs.")
structured_outcome(t, score) ==
  IF Truthy(score)
    THEN [ display_evaluation_results(t, score)
             EXCEPT !.level = Some(score_to_level(t, score[1])) ]
    ELSE [ ui |-> "error", level |-> None ]

\* The values the two st.selectbox widgets for Teams and Breadth offer.
SelectBoxValues == {10, 15, 20, 25, 30}

\* The values of st.slider(min_value=1.0, max_value=13.0, step=0.5).
SliderValues == { v \in 10..130 : v % 5 = 0 }

(***************************************************************************)
(* The inputs explored.  A rating is any number between -BelowZero and     *)
(* MaxRating with last digit 0, 5 or 7 (whole values, half steps, and      *)
(* values between them, which no table has as a key), or the key is        *)
(* missing.  An input is one of three reference inputs with the ratings of *)
(* the dimensions of one lookup, or the Size, replaced by any such values. *)
(***************************************************************************)
Dims == { "impact", "contribution", "communication", "frame", "innovation",
          "complexity", "knowledge", "teams", "breadth" }

RatingValues == { v \in (-BelowZero)..MaxRating : v % 10 \in {0, 5, 7} }

SizeValues == { v \in (-BelowZero)..MaxSize : v % 10 \in {0, 5, 7} }

\* Scenario 1 of the specification.
Example1 ==
  [ ratings |-> [ impact |-> 10, contribution |-> 10, communication |-> 10,
                  frame |-> 10, innovation |-> 10, complexity |-> 10,
                  knowledge |-> 30, teams |-> 10, breadth |-> 10 ],
    size |-> 70 ]

\* Scenario 2 of the specification.
Example2 ==
  [ ratings |-> [ impact |-> 40, contribution |-> 40, communication |-> 40,
                  frame |-> 30, innovation |-> 40, complexity |-> 30,
                  knowledge |-> 70, teams |-> 25, breadth |-> 25 ],
    size |-> 80 ]

\* What the callers build when the language model's answer has every
\* dimension but no "value" in any of them (result[dim].get("value", 0)),
\* with the widgets at their defaults.
ZeroValues ==
  [ ratings |-> [ impact |-> 0, contribution |-> 0, communication |-> 0,
                  frame |-> 0, innovation |-> 0, complexity |-> 0,
                  knowledge |-> 0, teams |-> 10, breadth |-> 10 ],
    size |-> 70 ]

ReferenceInputs == { Example1, Example2, ZeroValues }

\* The inputs whose first evaluation the history variable keeps.
RememberedInputs == { Example1, Example2 }

Lookups == { {"impact", "contribution"}, {"communication", "frame"},
             {"innovation", "complexity"}, {"knowledge", "teams"},
             {"breadth"} }

Overlay(base, G, f) ==
  [ d \in (DOMAIN base \ G) \cup DOMAIN f |->
      IF d \in DOMAIN f THEN f[d] ELSE base[d] ]

Vary(base, G) ==
  UNION { { Overlay(base, G, f) : f \in [present -> RatingValues] } :
          present \in SUBSET G }

Inputs ==
  UNION { { [ ratings |-> r, size |-> ref.size ] :
              r \in UNION { Vary(ref.ratings, G) : G \in Lookups } }
          \cup { [ ratings |-> ref.ratings, size |-> s ] : s \in SizeValues } :
          ref \in ReferenceInputs }

ScoreArgs ==
  (IPE_LEVEL_MAPPING[1][1] - ScoreMargin) ..
    (IPE_LEVEL_MAPPING[Len(IPE_LEVEL_MAPPING)][2] + ScoreMargin)

(***************************************************************************)
(* State.  The tables are the module-level objects of the process.  The    *)
(* other variables describe the call in progress: which function runs      *)
(* (fn), its arguments (ratings and size, or score_arg), what it returned  *)
(* (ipe_score and breakdown, or level), whether it raised, and what the    *)
(* user interface shows (ui).  Between calls fn is "idle" and nothing of   *)
(* the previous call is left.  remembered is a history variable: the first *)
(* evaluation of one of the RememberedInputs with its result, and how far  *)
(* the run has got since: "first" (nothing else yet), "between" (some      *)
(* other call or evaluation has happened), "again" (after that, the same   *)
(* input has been evaluated once more).                                    *)
(***************************************************************************)
VARIABLES tables, fn, ratings, size, ipe_score, breakdown, score_arg, level,
          ui, raised, remembered, results_json, frames

vars == << tables, fn, ratings, size, ipe_score, breakdown, score_arg, level,
           ui, raised, remembered, results_json, frames >>

Evaluations == { "calculate_ipe_score", "main", "evaluate_from_structured_inputs" }

\* The threads that may evaluate at the same time.
Threads == 1..NumThreads

\* The frame of a thread that is not inside calculate_ipe_score; calls
\* counts the calls the thread has completed.
IdleFrame ==
  [ pc |-> "idle", ratings |-> None, size |-> None,
    intermediate_value |-> None, impact_contrib_size_pts |-> None,
    comm_frame_pts |-> None, innov_complex_pts |-> None,
    knowledge_teams_pts |-> None, breadth_pts |-> None,
    total_pts |-> None, ipe_score |-> None, ret |-> None, calls |-> 0 ]

Init ==
  /\ load_outcome(IPE_LEVEL_MAPPING) = "loaded"
  /\ tables = LoadedTables
  /\ fn = "idle"
  /\ ratings = None
  /\ size = None
  /\ ipe_score = None
  /\ breakdown = None
  /\ score_arg = None
  /\ level = None
  /\ ui = "none"
  /\ raised = FALSE
  /\ remembered = None
  /\ results_json = None
  /\ frames = [ p \in Threads |-> IdleFrame ]

\* The history after a call that is not an evaluation of the remembered
\* input.
OtherCall(rem) ==
  IF rem # None /\ rem[1].phase = "first"
    THEN Some([ rem[1] EXCEPT !.phase = "between" ])
    ELSE rem

\* The history kept of an evaluation of input in that returned ret.
Remember(rem, in, ret) ==
  IF rem = None
    THEN IF in \in RememberedInputs
           THEN Some([ input |-> in, ipe_score |-> ret.ipe_score,
                       breakdown |-> ret.breakdown, phase |-> "first" ])
           ELSE None
    ELSE IF in = rem[1].input
           THEN IF rem[1].phase = "first" THEN rem
                ELSE Some([ rem[1] EXCEPT !.phase = "again" ])
           ELSE OtherCall(rem)

\* The body of calculate_ipe_score, shared by the three actions that run it.
Evaluate(in) ==
  LET ret == calculate_ipe_score(tables, in.ratings, in.size)
  IN  /\ ratings' = Some(in.ratings)
      /\ size' = Some(in.size)
      /\ raised' = calculate_raises(in.ratings, in.size)
      /\ ipe_score' = IF raised' THEN None ELSE ret.ipe_score
      /\ breakdown' = IF raised' THEN None ELSE Some(ret.breakdown)
      /\ tables' = tables_after_calculate(tables, in.ratings, in.size)
      /\ remembered' = IF raised' THEN remembered ELSE Remember(remembered, in, ret)

\* A direct call calculate_ipe_score(ratings, size).
CallCalculateIpeScore ==
  /\ fn = "idle"
  /\ \E in \in Inputs :
       /\ fn' = "calculate_ipe_score"
       /\ Evaluate(in)
       /\ UNCHANGED << score_arg, level, ui, results_json, frames >>

\* A direct call score_to_level(score).
CallScoreToLevel ==
  /\ fn = "idle"
  /\ fn' = "score_to_level"
  /\ \E score \in ScoreArgs :
       /\ score_arg' = Some(score)
       /\ level' = Some(score_to_level(tables, score))
  /\ remembered' = OtherCall(remembered)
  /\ UNCHANGED << tables, ratings, size, ipe_score, breakdown, ui, raised,
                  results_json, frames >>

\* The pasted-description flow of main: seven ratings come from the language
\* model (each present or not), Teams and Breadth from the select boxes and
\* Size from the slider.
MainInputs ==
  { in \in Inputs :
      /\ in.size \in SliderValues
      /\ {"teams", "breadth"} \subseteq DOMAIN in.ratings
      /\ in.ratings["teams"] \in SelectBoxValues
      /\ in.ratings["breadth"] \in SelectBoxValues }

MainPastedJD ==
  /\ fn = "idle"
  /\ fn' = "main"
  /\ \E in \in MainInputs :
       /\ Evaluate(in)
       /\ LET out == IF raised' THEN [ ui |-> "exception", level |-> None ]
                     ELSE main_outcome(tables', ipe_score')
          IN  ui' = out.ui /\ level' = out.level
       /\ score_arg' = IF ui' = "results" THEN ipe_score' ELSE None
       /\ results_json' =
            IF ui' = "results" /\ Truthy(ipe_score')
              THEN Some(results_json_of(ipe_score'[1], level'[1],
                                        breakdown'[1], in.ratings))
              ELSE None
  /\ UNCHANGED frames

\* The structured-input flow: nine ratings come from the language model
\* (each present or not) and Size from the slider.
StructuredInputs == { in \in Inputs : in.size \in SliderValues }

EvaluateFromStructuredInputs ==
  /\ fn = "idle"
  /\ fn' = "evaluate_from_structured_inputs"
  /\ \E in \in StructuredInputs :
       /\ Evaluate(in)
       /\ LET out == IF raised' THEN [ ui |-> "exception", level |-> None ]
                     ELSE structured_outcome(tables', ipe_score')
          IN  ui' = out.ui /\ level' = out.level
       /\ score_arg' = IF ui' = "results" THEN ipe_score' ELSE None
       /\ results_json' =
            IF ui' = "results" /\ Truthy(ipe_score')
              THEN Some(results_json_of(ipe_score'[1], level'[1],
                                        breakdown'[1], in.ratings))
              ELSE None
  /\ UNCHANGED frames

\* The call returns and its frame is dropped; Streamlit reruns the script
\* for the next interaction with fresh locals.
Rerun ==
  /\ fn # "idle"
  /\ fn' = "idle"
  /\ ratings' = None
  /\ size' = None
  /\ ipe_score' = None
  /\ breakdown' = None
  /\ score_arg' = None
  /\ level' = None
  /\ ui' = "none"
  /\ raised' = FALSE
  /\ results_json' = None
  /\ UNCHANGED << tables, remembered, frames >>

Next ==
  \/ CallCalculateIpeScore
  \/ CallScoreToLevel
  \/ MainPastedJD
  \/ EvaluateFromStructuredInputs
  \/ Rerun

Spec == Init /\ [][Next]_vars

(***************************************************************************)
(* Concurrent evaluations.  Each thread runs calculate_ipe_score in its    *)
(* own frame, one statement per step, in the order of the code; the steps  *)
(* of different threads interleave in any order.  The tables are the only  *)
(* objects the threads share.                                              *)
(***************************************************************************)
\* The arguments the threads are called with: the two scenarios, each with
\* a Size between two whole numbers.
ConcInputs ==
  { [ Example1 EXCEPT !.size = 75 ], [ Example2 EXCEPT !.size = 85 ] }

\* Variant: a name bound in thread 1's frame is read from there by every
\* thread, as if the names were module-level globals.
local_shared(fr, p, name) ==
  IF fr[1][name] # None THEN fr[1][name][1] ELSE fr[p][name][1]

\* The value of a parameter or local name inside thread p's call: Python
\* resolves it in the frame of that call.
local(fr, p, name) == fr[p][name][1]

\* The variables of the calls made one at a time.
seq_vars == << fn, ratings, size, ipe_score, breakdown, score_arg, level, ui,
               raised, remembered, results_json >>

\* The frames after thread p has run the assignment name = value and
\* moved on to the statement to.
Assigned(p, to, name, value) ==
  [ frames EXCEPT ![p] = [ @ EXCEPT !.pc = to, ![name] = Some(value) ] ]

\* A thread enters calculate_ipe_score(ratings, size).
ThreadCall ==
  \E p \in Threads : \E in \in ConcInputs :
    /\ frames[p].pc = "idle"
    /\ frames[p].calls < MaxCalls
    /\ frames' = [ frames EXCEPT ![p] =
                     [ @ EXCEPT !.pc = "intermediate_value",
                                !.ratings = Some(in.ratings),
                                !.size = Some(in.size) ] ]
    /\ UNCHANGED << tables, seq_vars >>

\* impact, contribution and intermediate_value = IMPACT_CONTRIBUTION_TABLE...
StepIntermediateValue ==
  \E p \in Threads :
    /\ frames[p].pc = "intermediate_value"
    /\ frames' = Assigned(p, "impact_contrib_size_pts", "intermediate_value",
           intermediate_value(tables, local(frames, p, "ratings")))
    /\ UNCHANGED << tables, seq_vars >>

\* impact_contrib_size_pts = IMPACT_SIZE_TABLE.get(intermediate_value, {})...
StepImpactContribSizePts ==
  \E p \in Threads :
    /\ frames[p].pc = "impact_contrib_size_pts"
    /\ frames' = Assigned(p, "comm_frame_pts", "impact_contrib_size_pts",
           impact_size_lookup(tables, local(frames, p, "intermediate_value"),
                              local(frames, p, "size")))
    /\ UNCHANGED << tables, seq_vars >>

\* comm_frame_pts = COMMUNICATION_FRAME_TABLE.get(...).get(...)
StepCommFramePts ==
  \E p \in Threads :
    /\ frames[p].pc = "comm_frame_pts"
    /\ frames' = Assigned(p, "innov_complex_pts", "comm_frame_pts",
           comm_frame_pts(tables, local(frames, p, "ratings")))
    /\ UNCHANGED << tables, seq_vars >>

\* innov_complex_pts = INNOVATION_COMPLEXITY_TABLE.get(...).get(...)
StepInnovComplexPts ==
  \E p \in Threads :
    /\ frames[p].pc = "innov_complex_pts"
    /\ frames' = Assigned(p, "knowledge_teams_pts", "innov_complex_pts",
           innov_complex_pts(tables, local(frames, p, "ratings")))
    /\ UNCHANGED << tables, seq_vars >>

\* knowledge_teams_pts = KNOWLEDGE_TEAMS_TABLE.get(...).get(...)
StepKnowledgeTeamsPts ==
  \E p \in Threads :
    /\ frames[p].pc = "knowledge_teams_pts"
    /\ frames' = Assigned(p, "breadth_pts", "knowledge_teams_pts",
           knowledge_teams_pts(tables, local(frames, p, "ratings")))
    /\ UNCHANGED << tables, seq_vars >>

\* breadth_pts = BREADTH_TABLE.get(ratings.get("breadth", 1), 0)
StepBreadthPts ==
  \E p \in Threads :
    /\ frames[p].pc = "breadth_pts"
    /\ frames' = Assigned(p, "total_pts", "breadth_pts",
           breadth_pts(tables, local(frames, p, "ratings")))
    /\ UNCHANGED << tables, seq_vars >>

\* total_pts = impact_contrib_size_pts + ... + breadth_pts
StepTotalPts ==
  \E p \in Threads :
    /\ frames[p].pc = "total_pts"
    /\ frames' = Assigned(p, "ipe_score", "total_pts",
           total_pts(local(frames, p, "impact_contrib_size_pts"),
                     local(frames, p, "comm_frame_pts"),
                     local(frames, p, "innov_complex_pts"),
                     local(frames, p, "knowledge_teams_pts"),
                     local(frames, p, "breadth_pts")))
    /\ UNCHANGED << tables, seq_vars >>

\* if total_pts > 26: ipe_score = int(...) else: ipe_score = None
StepIpeScore ==
  \E p \in Threads :
    /\ frames[p].pc = "ipe_score"
    /\ frames' = Assigned(p, "return", "ipe_score",
           ipe_score_of(local(frames, p, "total_pts")))
    /\ UNCHANGED << tables, seq_vars >>

\* return ipe_score, {...}: the pair is built from the locals.
ThreadReturn ==
  \E p \in Threads :
    /\ frames[p].pc = "return"
    /\ frames' = Assigned(p, "returned", "ret",
           [ ipe_score |-> local(frames, p, "ipe_score"),
             breakdown |->
               [ impact_contribution_size |-> local(frames, p, "impact_contrib_size_pts"),
                 intermediate_value       |-> local(frames, p, "intermediate_value"),
                 communication_frame      |-> local(frames, p, "comm_frame_pts"),
                 innovation_complexity    |-> local(frames, p, "innov_complex_pts"),
                 knowledge_teams          |-> local(frames, p, "knowledge_teams_pts"),
                 breadth                  |-> local(frames, p, "breadth_pts"),
                 size                     |-> local(frames, p, "size"),
                 total                    |-> local(frames, p, "total_pts") ] ])
    /\ UNCHANGED << tables, seq_vars >>

\* The caller has taken the pair; the frame of the call is dropped.
ThreadDone ==
  \E p \in Threads :
    /\ frames[p].pc = "returned"
    /\ frames' = [ frames EXCEPT ![p] =
                     [ IdleFrame EXCEPT !.calls = frames[p].calls + 1 ] ]
    /\ UNCHANGED << tables, seq_vars >>

NextConc ==
  \/ ThreadCall
  \/ StepIntermediateValue
  \/ StepImpactContribSizePts
  \/ StepCommFramePts
  \/ StepInnovComplexPts
  \/ StepKnowledgeTeamsPts
  \/ StepBreadthPts
  \/ StepTotalPts
  \/ StepIpeScore
  \/ ThreadReturn
  \/ ThreadDone

SpecConc == Init /\ [][NextConc]_vars

TypeOK ==
  /\ fn \in Evaluations \cup { "idle", "score_to_level" }
  /\ ui \in { "none", "results", "error", "exception" }
  /\ raised \in BOOLEAN
  /\ \A p \in Threads : frames[p].pc \in
        { "idle", "intermediate_value", "impact_contrib_size_pts",
          "comm_frame_pts", "innov_complex_pts", "knowledge_teams_pts",
          "breadth_pts", "total_pts", "ipe_score", "return", "returned" }

(***************************************************************************)
(* Vocabulary of the properties.                                           *)
(***************************************************************************)
\* The state is the return of an evaluation by calculate_ipe_score.
Evaluated == fn \in Evaluations /\ breakdown # None

\* The state is the return of one of the two user-interface flows.
InCaller == fn \in { "main", "evaluate_from_structured_inputs" }

\* score lies in band i of the mapping.
InBand(mapping, i, score) == mapping[i][1] <= score /\ score <= mapping[i][2]

\* The bands of the mapping that contain score.
BandsOf(mapping, score) == { i \in 1..Len(mapping) : InBand(mapping, i, score) }

(***************************************************************************)
(* C1.  Whenever the total of an evaluation is greater than 26, the score  *)
(* returned is an integer k + 40 where k is the floor of (total - 26)/25,  *)
(* that is 25 k <= total - 26 < 25 (k + 1).                                *)
(***************************************************************************)
C1_ScoreIsFloorFormula ==
  (Evaluated /\ breakdown[1].total > 26) =>
     /\ ipe_score # None
     /\ ipe_score[1] \in Int
     /\ LET k == ipe_score[1] - 40
        IN  /\ 25 * k <= breakdown[1].total - 26
            /\ breakdown[1].total - 26 < 25 * (k + 1)

\* Scenario 1: total 75, where (75 - 26) / 25 = 1.96 is floored to 1.
C1_Witness ==
  /\ Evaluated
  /\ breakdown[1].total = 75
  /\ ipe_score = Some(41)

(***************************************************************************)
(* C2.  Whenever the total of an evaluation is 26 or less, no score is     *)
(* returned (None, not a number); a total of 27 gives the score 40.        *)
(***************************************************************************)
C2_NoScoreUpTo26 ==
  Evaluated =>
     /\ (breakdown[1].total <= 26 => ipe_score = None)
     /\ (breakdown[1].total = 27 => ipe_score = Some(40))

\* Scenario 1 with Knowledge 0: the Knowledge x Teams lookup misses and the
\* total is 5 + 10 + 10 + 0 + 0 = 25.
C2_Witness ==
  /\ Evaluated
  /\ breakdown[1].total = 25
  /\ ipe_score = None

(***************************************************************************)
(* C3.  When score_to_level is called with a score from 40 to 73, exactly  *)
(* one band of the level table contains the score, and the level returned  *)
(* is the level of that band and lies in 1..12.                            *)
(***************************************************************************)
C3_ExactlyOneBand ==
  (fn = "score_to_level" /\ score_arg[1] \in 40..73) =>
     LET m == tables.IPE_LEVEL_MAPPING
     IN  /\ Cardinality(BandsOf(m, score_arg[1])) = 1
         /\ \A i \in BandsOf(m, score_arg[1]) : level = Some(m[i][3])
         /\ level[1] \in 1..12

C3_Witness ==
  /\ fn = "score_to_level"
  /\ score_arg = Some(58)
  /\ level = Some(9)

(***************************************************************************)
(* C4.  When score_to_level is called with a score that no band contains   *)
(* (below 40 or above 73), it returns level 1 and raises nothing.          *)
(***************************************************************************)
C4_FallbackLevel1 ==
  (fn = "score_to_level" /\ BandsOf(tables.IPE_LEVEL_MAPPING, score_arg[1]) = {}) =>
     /\ level = Some(1)
     /\ ~raised

C4_Witness ==
  /\ fn = "score_to_level"
  /\ score_arg = Some(74)
  /\ level = Some(1)

(***************************************************************************)
(* Vocabulary of C5: the lookup of an evaluation of ratings r and Size s   *)
(* misses, that is, the column key is not a key of the row selected (the   *)
(* row is the empty dictionary when the row key is not in the table).      *)
(***************************************************************************)
MissImpactContribution(t, r) ==
  contribution(r) \notin DOMAIN Get(t.IMPACT_CONTRIBUTION_TABLE, impact(r), EmptyDict)

MissImpactSize(t, r, s) ==
  int(s) \notin DOMAIN Get(t.IMPACT_SIZE_TABLE, intermediate_value(t, r), EmptyDict)

MissCommunicationFrame(t, r) ==
  Get(r, "frame", 10) \notin
    DOMAIN Get(t.COMMUNICATION_FRAME_TABLE, int(Get(r, "communication", 10)), EmptyDict)

MissInnovationComplexity(t, r) ==
  Get(r, "complexity", 10) \notin
    DOMAIN Get(t.INNOVATION_COMPLEXITY_TABLE, int(Get(r, "innovation", 10)), EmptyDict)

MissKnowledgeTeams(t, r) ==
  Get(r, "teams", 10) \notin
    DOMAIN Get(t.KNOWLEDGE_TEAMS_TABLE, int(Get(r, "knowledge", 10)), EmptyDict)

MissBreadth(t, r) == Get(r, "breadth", 10) \notin DOMAIN t.BREADTH_TABLE

\* The five lookups that yield points: a miss gives 0 points.
PointLookupMissesGiveZero ==
  LET r == ratings[1]
      b == breakdown[1]
  IN  /\ MissImpactSize(tables, r, size[1]) => b.impact_contribution_size = 0
      /\ MissCommunicationFrame(tables, r) => b.communication_frame = 0
      /\ MissInnovationComplexity(tables, r) => b.innovation_complexity = 0
      /\ MissKnowledgeTeams(tables, r) => b.knowledge_teams = 0
      /\ MissBreadth(tables, r) => b.breadth = 0

(***************************************************************************)
(* C5, as stated.  In every evaluation, a miss of any of the six lookups   *)
(* (Impact x Contribution included) leaves 0 points in the component the   *)
(* lookup feeds.  Violated: a miss of Impact x Contribution yields the     *)
(* intermediate value 1, whose row of the Impact x Size table holds 5.     *)
(***************************************************************************)
C5_Original_EveryMissGivesZero ==
  Evaluated =>
     /\ PointLookupMissesGiveZero
     /\ MissImpactContribution(tables, ratings[1]) =>
           breakdown[1].impact_contribution_size = 0

(***************************************************************************)
(* C5, amended.  Every evaluation completes and returns a breakdown        *)
(* without raising.  A miss of Impact x Size, Communication x Frame,       *)
(* Innovation x Complexity, Knowledge x Teams or Breadth gives 0 points    *)
(* for its component.  A miss of Impact x Contribution gives the           *)
(* intermediate value 1, not 0, and the component is what the Impact x     *)
(* Size table holds in row 1 for the integer part of Size (0 when that     *)
(* column is missing too).                                                 *)
(***************************************************************************)
C5_MissesAreAbsorbed ==
  (fn \in Evaluations) =>
     /\ breakdown # None
     /\ ~raised
     /\ PointLookupMissesGiveZero
     /\ MissImpactContribution(tables, ratings[1]) =>
          /\ breakdown[1].intermediate_value = 10
          /\ breakdown[1].impact_contribution_size =
               Get(Get(tables.IMPACT_SIZE_TABLE, 10, EmptyDict), int(size[1]), 0)

\* Impact 0 and Communication 0: both rows are missing; the first component
\* is 5, the second 0.
C5_Witness ==
  /\ Evaluated
  /\ MissImpactContribution(tables, ratings[1])
  /\ MissCommunicationFrame(tables, ratings[1])
  /\ breakdown[1].impact_contribution_size = 5
  /\ breakdown[1].communication_frame = 0

(***************************************************************************)
(* Vocabulary of C6: the discrete set of values each dimension allows, and *)
(* a rating vector that lacks a dimension or holds a value outside its     *)
(* set.                                                                    *)
(***************************************************************************)
HalfSteps(lo, hi) == { v \in lo..hi : v % 5 = 0 }

WholeSteps(lo, hi) == { v \in lo..hi : v % 10 = 0 }

AllowedRatings ==
  [ impact        |-> WholeSteps(10, 50),
    contribution  |-> HalfSteps(10, 50),
    communication |-> HalfSteps(10, 50),
    frame         |-> WholeSteps(10, 40),
    innovation    |-> HalfSteps(10, 60),
    complexity    |-> WholeSteps(10, 40),
    knowledge     |-> HalfSteps(10, 80),
    teams         |-> HalfSteps(10, 30),
    breadth       |-> HalfSteps(10, 30) ]

Malformed(r) ==
  \E d \in Dims : d \notin DOMAIN r \/ r[d] \notin AllowedRatings[d]

\* The vector with the rating 1 put in for every missing dimension.
WithDefaults(r) == [ d \in Dims |-> IF d \in DOMAIN r THEN r[d] ELSE 10 ]

(***************************************************************************)
(* C6, as stated.  An evaluation of a malformed rating vector fails with   *)
(* an error.  Violated: calculate_ipe_score never raises.                  *)
(***************************************************************************)
C6_Original_MalformedRaises ==
  (fn \in Evaluations /\ Malformed(ratings[1])) => raised

(***************************************************************************)
(* C6, amended.  An evaluation of a malformed rating vector (of finite     *)
(* numbers) raises no error and returns a breakdown: a missing dimension   *)
(* is silently given the rating 1, so the result is the result for the     *)
(* vector completed with 1s, and a value outside its allowed set goes into *)
(* the lookup as it is.  The outcome is a score or "no score", as for a    *)
(* well-formed vector.                                                     *)
(***************************************************************************)
C6_MalformedIsDefaulted ==
  (fn \in Evaluations /\ Malformed(ratings[1])) =>
     /\ ~raised
     /\ breakdown # None
     /\ LET full == calculate_ipe_score(tables, WithDefaults(ratings[1]), size[1])
        IN  /\ ipe_score = full.ipe_score
            /\ breakdown = Some(full.breakdown)

\* Scenario 1 without Knowledge and with Teams 3.5: no error, and the
\* outcome is "no score".
C6_Witness ==
  /\ Evaluated
  /\ "knowledge" \notin DOMAIN ratings[1]
  /\ "teams" \in DOMAIN ratings[1]
  /\ ratings[1]["teams"] = 35
  /\ ~raised
  /\ ipe_score = None

(***************************************************************************)
(* C7.  In every breakdown returned, total is the sum of the five          *)
(* components of that breakdown; intermediate_value and size are not       *)
(* added.                                                                  *)
(***************************************************************************)
C7_TotalIsSumOfFive ==
  Evaluated =>
     LET b == breakdown[1]
     IN  b.total = b.impact_contribution_size + b.communication_frame
                     + b.innovation_complexity + b.knowledge_teams + b.breadth

\* Scenario 2: 198 + 65 + 55 + 161 + 15 = 494, with intermediate value 13
\* and Size 8 left out.
C7_Witness ==
  /\ Evaluated
  /\ breakdown[1].total = 494
  /\ breakdown[1].breadth = 15
  /\ breakdown[1].intermediate_value = 130
  /\ breakdown[1].size = 80

(***************************************************************************)
(* C8.  An evaluation of the remembered input returns the score and the    *)
(* breakdown that its first evaluation returned, whatever calls were made  *)
(* in between.                                                             *)
(***************************************************************************)
C8_SameInputSameResult ==
  ( /\ Evaluated
    /\ remembered # None
    /\ ratings = Some(remembered[1].input.ratings)
    /\ size = Some(remembered[1].input.size) ) =>
       /\ ipe_score = remembered[1].ipe_score
       /\ breakdown = Some(remembered[1].breakdown)

\* The remembered input evaluated once more after other calls.
C8_Witness ==
  /\ Evaluated
  /\ remembered # None
  /\ remembered[1].phase = "again"
  /\ ratings = Some(remembered[1].input.ratings)
  /\ size = Some(remembered[1].input.size)
  /\ ipe_score = remembered[1].ipe_score

(***************************************************************************)
(* C9.  The two worked scenarios.  Scenario 1 gives intermediate value 1,  *)
(* components 5, 10, 10, 50, 0, total 75, score 41 and level 1; scenario 2 *)
(* gives intermediate value 13, components 198, 65, 55, 161, 15, total     *)
(* 494, score 58 and level 9.                                              *)
(***************************************************************************)
C9_WorkedExamples ==
  /\ (Evaluated /\ ratings = Some(Example1.ratings) /\ size = Some(Example1.size)) =>
        /\ breakdown[1] =
             [ impact_contribution_size |-> 5, intermediate_value |-> 10,
               communication_frame |-> 10, innovation_complexity |-> 10,
               knowledge_teams |-> 50, breadth |-> 0, size |-> 70, total |-> 75 ]
        /\ ipe_score = Some(41)
        /\ InCaller => level = Some(1)
  /\ (Evaluated /\ ratings = Some(Example2.ratings) /\ size = Some(Example2.size)) =>
        /\ breakdown[1] =
             [ impact_contribution_size |-> 198, intermediate_value |-> 130,
               communication_frame |-> 65, innovation_complexity |-> 55,
               knowledge_teams |-> 161, breadth |-> 15, size |-> 80, total |-> 494 ]
        /\ ipe_score = Some(58)
        /\ InCaller => level = Some(9)
  /\ (fn = "score_to_level" /\ score_arg = Some(41)) => level = Some(1)
  /\ (fn = "score_to_level" /\ score_arg = Some(58)) => level = Some(9)

C9_Witness ==
  /\ InCaller
  /\ ratings = Some(Example2.ratings)
  /\ size = Some(Example2.size)
  /\ breakdown[1].total = 494
  /\ ipe_score = Some(58)
  /\ level = Some(9)

(***************************************************************************)
(* C10.  In both user-interface flows, when calculate_ipe_score returned   *)
(* no score the flow shows the error and computes no level; a level is     *)
(* computed only from a score that was returned.                           *)
(***************************************************************************)
C10_NoScoreNoLevel ==
  InCaller =>
     /\ ipe_score = None => (ui = "error" /\ level = None)
     /\ level # None =>
          /\ ipe_score # None
          /\ level = Some(score_to_level(tables, ipe_score[1]))

C10_Witness ==
  /\ fn = "main"
  /\ breakdown # None
  /\ ipe_score = None
  /\ ui = "error"
  /\ level = None

(***************************************************************************)
(* Vocabulary of C11 and C14: the component of the breakdown each          *)
(* dimension feeds, the next allowed step of a rating, and the breakdown   *)
(* the engine returns for given ratings and Size on the current tables.    *)
(***************************************************************************)
Feeds ==
  [ impact        |-> "impact_contribution_size",
    contribution  |-> "impact_contribution_size",
    communication |-> "communication_frame",
    frame         |-> "communication_frame",
    innovation    |-> "innovation_complexity",
    complexity    |-> "innovation_complexity",
    knowledge     |-> "knowledge_teams",
    teams         |-> "knowledge_teams",
    breadth       |-> "breadth" ]

Least(S) == CHOOSE x \in S : \A y \in S : x <= y

\* The next value above v that dimension d allows, or v when v is the top.
NextStep(d, v) ==
  LET above == { w \in AllowedRatings[d] : w > v }
  IN  IF above = {} THEN v ELSE Least(above)

BreakdownFor(r, s) == calculate_ipe_score(tables, r, s).breakdown

(***************************************************************************)
(* C11.  For a well-formed rating vector and a Size of the slider, raising *)
(* one rating to its next allowed step never lowers the component that     *)
(* rating feeds nor the total; for Impact and Contribution this holds at   *)
(* every Size of the slider, and raising Size by half a point never lowers *)
(* the impact-contribution-size component nor the total.                   *)
(***************************************************************************)
C11_RaisingNeverLowers ==
  (Evaluated /\ ~Malformed(ratings[1]) /\ size[1] \in SliderValues) =>
     LET r == ratings[1]
         b == breakdown[1]
         Raised(d) == [ r EXCEPT ![d] = NextStep(d, r[d]) ]
     IN  /\ \A d \in Dims :
              LET up == BreakdownFor(Raised(d), size[1])
              IN  up[Feeds[d]] >= b[Feeds[d]] /\ up.total >= b.total
         /\ \A s \in SliderValues :
              /\ \A d \in { "impact", "contribution" } :
                   BreakdownFor(Raised(d), s).impact_contribution_size
                     >= BreakdownFor(r, s).impact_contribution_size
              /\ (s + 5) \in SliderValues =>
                   /\ BreakdownFor(r, s + 5).impact_contribution_size
                        >= BreakdownFor(r, s).impact_contribution_size
                   /\ BreakdownFor(r, s + 5).total >= BreakdownFor(r, s).total

\* Scenario 2, where raising Frame from 3 to 4 lifts the component from 65
\* to 75.
C11_Witness ==
  /\ Evaluated
  /\ ratings = Some(Example2.ratings)
  /\ size = Some(Example2.size)
  /\ breakdown[1].communication_frame = 65
  /\ BreakdownFor([ ratings[1] EXCEPT !["frame"] = NextStep("frame", 30) ],
                  size[1]).communication_frame = 75

(***************************************************************************)
(* C12.  In every state, after any calls with any inputs, the five         *)
(* two-axis tables, the Breadth table and the level-band table are the     *)
(* tables loaded at start-up.                                              *)
(***************************************************************************)
C12_TablesNeverChange == tables = LoadedTables

\* An evaluation whose Impact row is missing, made after earlier calls.
C12_Witness ==
  /\ Evaluated
  /\ remembered # None
  /\ remembered[1].phase = "between"
  /\ impact(ratings[1]) \notin DOMAIN LoadedTables.IMPACT_CONTRIBUTION_TABLE
  /\ tables = LoadedTables

(***************************************************************************)
(* C14.  In every evaluation, the intermediate value and the components    *)
(* communication-frame, innovation-complexity, knowledge-teams and breadth *)
(* are those the same ratings give at the Sizes of the reference inputs    *)
(* and at the two ends of the Size range; as the evaluations of a          *)
(* reference vector run over every Size, every Size is compared with the   *)
(* reference Size.                                                         *)
(***************************************************************************)
ComparedSizes ==
  { ref.size : ref \in ReferenceInputs } \cup { -BelowZero, MaxSize }

C14_SizeFeedsOneComponent ==
  Evaluated =>
     \A s \in ComparedSizes :
        LET b == breakdown[1]
            o == BreakdownFor(ratings[1], s)
        IN  /\ o.intermediate_value = b.intermediate_value
            /\ o.communication_frame = b.communication_frame
            /\ o.innovation_complexity = b.innovation_complexity
            /\ o.knowledge_teams = b.knowledge_teams
            /\ o.breadth = b.breadth

\* Scenario 2 at Size 13: the first component is 243 instead of 198, the
\* rest is as at Size 8.
C14_Witness ==
  /\ Evaluated
  /\ ratings = Some(Example2.ratings)
  /\ size = Some(130)
  /\ breakdown[1].impact_contribution_size = 243
  /\ breakdown[1].intermediate_value = 130
  /\ breakdown[1].communication_frame = 65
  /\ breakdown[1].innovation_complexity = 55
  /\ breakdown[1].knowledge_teams = 161
  /\ breakdown[1].breadth = 15

\* No point entry of the tables t is negative.
EntriesNonNegative(t) ==
  /\ \A name \in { "IMPACT_SIZE_TABLE", "COMMUNICATION_FRAME_TABLE",
                   "INNOVATION_COMPLEXITY_TABLE", "KNOWLEDGE_TEAMS_TABLE" } :
        \A row \in DOMAIN t[name] :
           \A col \in DOMAIN t[name][row] : t[name][row][col] >= 0
  /\ \A key \in DOMAIN t.BREADTH_TABLE : t.BREADTH_TABLE[key] >= 0

\* The same of the tables as they are loaded.
LoadedEntriesNonNegative == EntriesNonNegative(LoadedTables)

(***************************************************************************)
(* C15.  Every entry of every points table is 0 or more, and in every      *)
(* evaluation, of whatever input, each of the five components and the      *)
(* total are 0 or more.                                                    *)
(***************************************************************************)
C15_NothingNegative ==
  /\ IF tables = LoadedTables THEN LoadedEntriesNonNegative
                              ELSE EntriesNonNegative(tables)
  /\ Evaluated =>
        LET b == breakdown[1]
        IN  /\ b.impact_contribution_size >= 0
            /\ b.communication_frame >= 0
            /\ b.innovation_complexity >= 0
            /\ b.knowledge_teams >= 0
            /\ b.breadth >= 0
            /\ b.total >= 0

\* A malformed vector whose Breadth misses: the component is 0.
C15_Witness ==
  /\ Evaluated
  /\ Malformed(ratings[1])
  /\ MissBreadth(tables, ratings[1])
  /\ breakdown[1].breadth = 0
  /\ breakdown[1].total >= 0

(***************************************************************************)
(* Vocabulary of C19 and C20: the integer part of a number (in tenths),    *)
(* stated by its defining property, and the row a lookup selects for the   *)
(* integer part of the rating of its row dimension.                        *)
(***************************************************************************)
IntegerPart(v) ==
  CHOOSE w \in { 10 * k : k \in (-(BelowZero \div 10) - 1)..(MaxSize \div 10 + 1) } :
    \/ v >= 0 /\ w <= v /\ v < w + 10
    \/ v < 0 /\ w >= v /\ v > w - 10

RowDims == { "impact", "communication", "innovation", "knowledge" }

RowSelected(table, r, d) == Get(table, IntegerPart(Get(r, d, 10)), EmptyDict)

\* The lookup of column key c in row gave got: the entry under exactly c, or
\* the default when c is not a key of the row.
ExactColumn(row, c, got, default) ==
  /\ c \in DOMAIN row => got = row[c]
  /\ c \notin DOMAIN row => got = default

(***************************************************************************)
(* C19.  In every evaluation, replacing the rating of a row dimension      *)
(* (Impact, Communication, Innovation, Knowledge) by its integer part      *)
(* leaves the component it feeds, and the intermediate value, unchanged.   *)
(***************************************************************************)
C19_RowKeyIsIntegerPart ==
  Evaluated =>
     \A d \in RowDims \cap DOMAIN ratings[1] :
        LET whole == BreakdownFor([ ratings[1] EXCEPT ![d] = IntegerPart(@) ], size[1])
        IN  /\ whole[Feeds[d]] = breakdown[1][Feeds[d]]
            /\ whole.intermediate_value = breakdown[1].intermediate_value

\* Scenario 2 with Communication 3.5: the points of row 3, column 3.
C19_Witness ==
  /\ Evaluated
  /\ {"communication", "frame"} \subseteq DOMAIN ratings[1]
  /\ ratings[1]["communication"] = 35
  /\ ratings[1]["frame"] = 30
  /\ breakdown[1].communication_frame = tables.COMMUNICATION_FRAME_TABLE[30][30]

(***************************************************************************)
(* C20.  In every evaluation, each column key (Contribution, Frame,        *)
(* Complexity, Teams, Breadth) is looked up as it is: the component is the *)
(* entry stored under exactly that value in the selected row, and when the *)
(* value is not a key of that row the lookup misses (0 points; the         *)
(* intermediate value 1 for Contribution), also when its integer part is a *)
(* key of the row.                                                         *)
(***************************************************************************)
C20_ColumnKeyIsExact ==
  Evaluated =>
     LET r == ratings[1]
         b == breakdown[1]
     IN  /\ ExactColumn(RowSelected(tables.IMPACT_CONTRIBUTION_TABLE, r, "impact"),
                        Get(r, "contribution", 10), b.intermediate_value, 10)
         /\ ExactColumn(RowSelected(tables.COMMUNICATION_FRAME_TABLE, r, "communication"),
                        Get(r, "frame", 10), b.communication_frame, 0)
         /\ ExactColumn(RowSelected(tables.INNOVATION_COMPLEXITY_TABLE, r, "innovation"),
                        Get(r, "complexity", 10), b.innovation_complexity, 0)
         /\ ExactColumn(RowSelected(tables.KNOWLEDGE_TEAMS_TABLE, r, "knowledge"),
                        Get(r, "teams", 10), b.knowledge_teams, 0)
         /\ ExactColumn(tables.BREADTH_TABLE, Get(r, "breadth", 10), b.breadth, 0)

\* Scenario 2 with Frame 2.5: row 4 has the columns 2 and 3 (55 and 65
\* points) but not 2.5, and the component is 0.
C20_Witness ==
  /\ Evaluated
  /\ {"communication", "frame"} \subseteq DOMAIN ratings[1]
  /\ ratings[1]["frame"] = 25
  /\ ratings[1]["communication"] = 40
  /\ IntegerPart(25) \in DOMAIN tables.COMMUNICATION_FRAME_TABLE[40]
  /\ breakdown[1].communication_frame = 0

(***************************************************************************)
(* C16.  As the specification states it: by the time score_to_level is     *)
(* called, a level mapping with a gap or an overlap has made the import    *)
(* fail.                                                                   *)
(***************************************************************************)
\* The shipped mapping, the same with score 50 in no band, and the same
\* with score 51 in two bands.
CandidateMappings ==
  { IPE_LEVEL_MAPPING,
    [ IPE_LEVEL_MAPPING EXCEPT ![5] = <<48, 49, 5>> ],
    [ IPE_LEVEL_MAPPING EXCEPT ![5] = <<48, 51, 5>> ] }

SpecFieldNames ==
  { "impactContributionSize", "intermediateValue", "communicationFrame",
    "innovationComplexity", "knowledgeTeams", "breadth", "total", "size" }

C17_Original_SpecFieldNames ==
  Evaluated =>
    /\ DOMAIN breakdown[1] = SpecFieldNames
    /\ InCaller =>
         /\ results_json # None
         /\ (ipe_score # None) <=>
              ({"ipeScore", "level"} \subseteq DOMAIN results_json[1])

(***************************************************************************)
(* C17 as the code has it.  Every evaluation, with or without a score,     *)
(* returns a breakdown with exactly the eight keys                         *)
(* impact_contribution_size, intermediate_value, communication_frame,      *)
(* innovation_complexity, knowledge_teams, breadth, size and total.  The   *)
(* two flows build the exported record only when a score is defined; it    *)
(* then carries that score as ipe_score, its level as level, the total as  *)
(* total_points and the breakdown itself.  With no score there is no       *)
(* exported record.                                                        *)
(***************************************************************************)
CodeFieldNames ==
  { "impact_contribution_size", "intermediate_value", "communication_frame",
    "innovation_complexity", "knowledge_teams", "breadth", "size", "total" }

C17_BreakdownKeysAndExport ==
  Evaluated =>
    /\ DOMAIN breakdown[1] = CodeFieldNames
    /\ InCaller => ((ipe_score # None) <=> (results_json # None))
    /\ ~InCaller => results_json = None
    /\ results_json # None =>
         /\ {"ipe_score", "level", "total_points", "breakdown"}
              \subseteq DOMAIN results_json[1]
         /\ results_json[1].ipe_score = ipe_score[1]
         /\ results_json[1].level = score_to_level(tables, ipe_score[1])
         /\ results_json[1].total_points = breakdown[1].total
         /\ results_json[1].breakdown = breakdown[1]

C17_Witness ==
  /\ fn = "evaluate_from_structured_inputs"
  /\ ipe_score = Some(58)
  /\ results_json # None
  /\ results_json[1].ipe_score = 58
  /\ results_json[1].level = 9
  /\ DOMAIN breakdown[1] = CodeFieldNames

(***************************************************************************)
(* C13.  With the steps of concurrent evaluations interleaved in any       *)
(* order, every value a thread has computed is the value the evaluation of *)
(* its own arguments computes alone, and the pair it returns is the pair   *)
(* calculate_ipe_score returns for those arguments alone.                  *)
(***************************************************************************)
\* What the evaluation of thread p's arguments returns when run alone.
Alone(p) == calculate_ipe_score(tables, frames[p].ratings[1], frames[p].size[1])

C13_InterleavingKeepsResults ==
  \A p \in Threads :
    LET f == frames[p]
    IN  /\ f.intermediate_value # None =>
             f.intermediate_value[1] = Alone(p).breakdown.intermediate_value
        /\ f.total_pts # None => f.total_pts[1] = Alone(p).breakdown.total
        /\ f.ipe_score # None => f.ipe_score[1] = Alone(p).ipe_score
        /\ f.pc = "returned" => f.ret = Some(Alone(p))

C13_Witness ==
  /\ frames[1].pc = "returned"
  /\ frames[1].ratings = Some(Example1.ratings)
  /\ frames[1].size = Some(75)
  /\ frames[1].ret = Some(calculate_ipe_score(tables, Example1.ratings, 75))
  /\ frames[2].pc = "total_pts"
  /\ frames[2].ratings = Some(Example2.ratings)
  /\ frames[2].intermediate_value # frames[1].intermediate_value

(***************************************************************************)
(* C18.  In every evaluation the Impact x Size points are assigned only    *)
(* after the intermediate value, and they are the entry of                 *)
(* IMPACT_SIZE_TABLE in the row of that intermediate value (the one the    *)
(* breakdown reports) and the column of the integer part of Size, 0 when   *)
(* there is none; hence Size and its integer part give the same points.    *)
(***************************************************************************)
C18_ImpactSizeUsesIntermediate ==
  \A p \in Threads :
    LET f == frames[p]
    IN  /\ f.impact_contrib_size_pts # None =>
             /\ f.intermediate_value # None
             /\ f.impact_contrib_size_pts[1] =
                  Get(Get(tables.IMPACT_SIZE_TABLE, f.intermediate_value[1], EmptyDict),
                      IntegerPart(f.size[1]), 0)
        /\ f.pc = "returned" =>
             /\ f.ret[1].breakdown.intermediate_value = f.intermediate_value[1]
             /\ f.ret[1].breakdown.impact_contribution_size =
                  f.impact_contrib_size_pts[1]
             /\ f.ret[1].breakdown.impact_contribution_size =
                  impact_contrib_size_pts(tables, f.ratings[1], IntegerPart(f.size[1]))

C18_Witness ==
  \E p \in Threads :
    /\ frames[p].pc = "returned"
    /\ frames[p].size = Some(75)
    /\ frames[p].intermediate_value = Some(10)
    /\ frames[p].ret[1].breakdown.impact_contribution_size > 0
    /\ frames[p].ret[1].breakdown.impact_contribution_size =
         IMPACT_SIZE_TABLE[10][70]

(***************************************************************************)
(* C22.  In every evaluation where the Impact x Contribution lookup misses *)
(* - as it does whenever the integer part of Impact is not one of 1..5, or *)
(* Contribution is not a key of the selected row - the intermediate value  *)
(* of the breakdown is 1, and when the integer part of Size is one of      *)
(* 1..13 the impact-contribution-size component is the entry of row 1 of   *)
(* IMPACT_SIZE_TABLE, 5 points.                                            *)
(***************************************************************************)
C22_MissGivesRowOne ==
  Evaluated =>
     LET r == ratings[1]
         b == breakdown[1]
         row == RowSelected(tables.IMPACT_CONTRIBUTION_TABLE, r, "impact")
         missed == \/ IntegerPart(Get(r, "impact", 10)) \notin WholeSteps(10, 50)
                   \/ Get(r, "contribution", 10) \notin DOMAIN row
     IN  /\ missed <=> MissImpactContribution(tables, r)
         /\ missed =>
              /\ b.intermediate_value = 10
              /\ IntegerPart(size[1]) \in WholeSteps(10, 130) =>
                   /\ b.impact_contribution_size = 5
                   /\ b.impact_contribution_size =
                        tables.IMPACT_SIZE_TABLE[10][IntegerPart(size[1])]

\* Impact 0 with Contribution 0 at Size 7: intermediate value 1, 5 points.
C22_Witness ==
  /\ Evaluated
  /\ ratings = Some(ZeroValues.ratings)
  /\ size = Some(70)
  /\ MissImpactContribution(tables, ratings[1])
  /\ breakdown[1].intermediate_value = 10
  /\ breakdown[1].impact_contribution_size = 5

(***************************************************************************)
(* C23.  In every evaluation that returns, of whatever ratings (outside    *)
(* their sets, keys missing) and whatever Size, the total is at most the   *)
(* sum of the largest entries of the five point tables, 842, and the score *)
(* is None or an integer from 40 to 72: it is truthy exactly when it is    *)
(* not None, a band of the level mapping contains it, and score_to_level   *)
(* returns the level of that band.                                         *)
(***************************************************************************)
Greatest(S) == CHOOSE x \in S : \A y \in S : x >= y

\* The largest entry of a two-axis table.
GreatestEntry(table) ==
  Greatest(UNION { { table[row][col] : col \in DOMAIN table[row] } :
                   row \in DOMAIN table })

\* The sum of the largest entries of the point tables t.
GreatestTotal(t) ==
  GreatestEntry(t.IMPACT_SIZE_TABLE) + GreatestEntry(t.COMMUNICATION_FRAME_TABLE)
    + GreatestEntry(t.INNOVATION_COMPLEXITY_TABLE)
    + GreatestEntry(t.KNOWLEDGE_TEAMS_TABLE)
    + Greatest({ t.BREADTH_TABLE[key] : key \in DOMAIN t.BREADTH_TABLE })

\* The same of the tables as they are loaded.
LoadedGreatestTotal == GreatestTotal(LoadedTables)

C23_ScoreAbsentOr40To72 ==
  Evaluated =>
     LET top == IF tables = LoadedTables THEN LoadedGreatestTotal
                                         ELSE GreatestTotal(tables)
     IN  /\ top = 842
         /\ ipe_score_of(top) = Some(72)
         /\ breakdown[1].total <= top
         /\ ipe_score # None => ipe_score[1] \in 40..72
         /\ Truthy(ipe_score) <=> ipe_score # None
         /\ ipe_score # None =>
              LET m == tables.IPE_LEVEL_MAPPING
              IN  /\ BandsOf(m, ipe_score[1]) # {}
                  /\ \A i \in BandsOf(m, ipe_score[1]) :
                       score_to_level(tables, ipe_score[1]) = m[i][3]
         /\ (InCaller /\ ipe_score # None) => ui = "results"

\* A malformed vector that still scores, shown by one of the two flows.
C23_Witness ==
  /\ InCaller
  /\ Malformed(ratings[1])
  /\ ipe_score # None
  /\ ipe_score[1] \in 40..72
  /\ ui = "results"
  /\ level # None

(***************************************************************************)
(* C24.  Over the scores 40..73 score_to_level never falls as the score    *)
(* rises, rises by at most one level from a score to the next, and takes   *)
(* every level from 1 to 12; a score outside 40..73 gives level 1, so 74   *)
(* gives a lower level than 73.                                            *)
(***************************************************************************)
C24_LevelsRiseStepwise ==
  fn = "score_to_level" =>
     LET score == score_arg[1]
         Level(x) == score_to_level(tables, x)
     IN  /\ level = Some(Level(score))
         /\ score \in 40..73 =>
              /\ \A above \in score..73 : Level(above) >= level[1]
              /\ score < 73 => Level(score + 1) - level[1] \in {0, 1}
              /\ \A l \in 1..12 : \E x \in 40..73 : Level(x) = l
         /\ score \notin 40..73 => level = Some(1)
         /\ score = 74 => level[1] < Level(73)

C24_Witness ==
  /\ fn = "score_to_level"
  /\ score_arg = Some(66)
  /\ level = Some(12)
  /\ score_to_level(tables, 65) = 11
  /\ score_to_level(tables, 74) = 1

(***************************************************************************)
(* Evaluations of well-formed inputs.  The two flows are run with rating   *)
(* vectors whose nine values lie in their allowed sets and a Size of the   *)
(* slider: four vectors (the lowest, the highest and the two scenarios),   *)
(* each with the ratings of one lookup replaced by every allowed           *)
(* combination, and with Impact, Contribution and Size replaced by every   *)
(* allowed combination of the three.                                       *)
(***************************************************************************)
\* Every rating at the bottom of its set, Size 1.
LowestWellFormed ==
  [ ratings |-> [ d \in Dims |-> Least(AllowedRatings[d]) ], size |-> 10 ]

\* Every rating at the top of its set, Size 13.
HighestWellFormed ==
  [ ratings |-> [ d \in Dims |-> Greatest(AllowedRatings[d]) ], size |-> 130 ]

WellFormedBases == { LowestWellFormed, HighestWellFormed, Example1, Example2 }

\* The allowed combinations of ratings for the dimensions G.
AllowedFor(G) ==
  { f \in [ G -> UNION { AllowedRatings[d] : d \in G } ] :
      \A d \in G : f[d] \in AllowedRatings[d] }

WellFormedInputs ==
  UNION { UNION { { [ ratings |-> Overlay(base.ratings, G, f), size |-> base.size ] :
                      f \in AllowedFor(G) } : G \in Lookups }
          \cup { [ ratings |-> Overlay(base.ratings, {"impact", "contribution"}, f),
                   size |-> s ] :
                   f \in AllowedFor({"impact", "contribution"}), s \in SliderValues } :
          base \in WellFormedBases }

\* The pasted-description flow of main with a well-formed input.
MainWellFormed ==
  /\ fn = "idle"
  /\ fn' = "main"
  /\ \E in \in WellFormedInputs :
       /\ Evaluate(in)
       /\ LET out == IF raised' THEN [ ui |-> "exception", level |-> None ]
                     ELSE main_outcome(tables', ipe_score')
          IN  ui' = out.ui /\ level' = out.level
       /\ score_arg' = IF ui' = "results" THEN ipe_score' ELSE None
       /\ results_json' =
            IF ui' = "results" /\ Truthy(ipe_score')
              THEN Some(results_json_of(ipe_score'[1], level'[1],
                                        breakdown'[1], in.ratings))
              ELSE None
  /\ UNCHANGED frames

\* The structured-input flow with a well-formed input.
StructuredWellFormed ==
  /\ fn = "idle"
  /\ fn' = "evaluate_from_structured_inputs"
  /\ \E in \in WellFormedInputs :
       /\ Evaluate(in)
       /\ LET out == IF raised' THEN [ ui |-> "exception", level |-> None ]
                     ELSE structured_outcome(tables', ipe_score')
          IN  ui' = out.ui /\ level' = out.level
       /\ score_arg' = IF ui' = "results" THEN ipe_score' ELSE None
       /\ results_json' =
            IF ui' = "results" /\ Truthy(ipe_score')
              THEN Some(results_json_of(ipe_score'[1], level'[1],
                                        breakdown'[1], in.ratings))
              ELSE None
  /\ UNCHANGED frames

NextWellFormed ==
  \/ MainWellFormed
  \/ StructuredWellFormed
  \/ Rerun

SpecWellFormed == Init /\ [][NextWellFormed]_vars

(***************************************************************************)
(* C21.  For every well-formed rating vector and every Size of the slider: *)
(* none of the six lookups misses, and the intermediate value is a row of  *)
(* IMPACT_SIZE_TABLE; each component lies between the least and the        *)
(* greatest points its lookup gives over all allowed ratings, which add up *)
(* to 40 and to 842, so the total is in 40..842; the score is defined and  *)
(* in 40..72; and the level shown is that of the one band that contains    *)
(* the score, in 1..12.                                                    *)
(***************************************************************************)
\* The points each lookup of the tables t gives over all allowed ratings
\* and Sizes, the sums of the least and of the greatest of them, and whether
\* any of these lookups misses.
OverAllowed(t) ==
  LET ics == AllowedFor({"impact", "contribution"})
      cf  == AllowedFor({"communication", "frame"})
      ic  == AllowedFor({"innovation", "complexity"})
      kt  == AllowedFor({"knowledge", "teams"})
      b   == AllowedFor({"breadth"})
  IN  [ impact_contribution_size |->
          { impact_contrib_size_pts(t, r, s) : r \in ics, s \in SliderValues },
        communication_frame   |-> { comm_frame_pts(t, r) : r \in cf },
        innovation_complexity |-> { innov_complex_pts(t, r) : r \in ic },
        knowledge_teams       |-> { knowledge_teams_pts(t, r) : r \in kt },
        breadth               |-> { breadth_pts(t, r) : r \in b },
        least |->
          Least({ impact_contrib_size_pts(t, r, s) : r \in ics, s \in SliderValues })
            + Least({ comm_frame_pts(t, r) : r \in cf })
            + Least({ innov_complex_pts(t, r) : r \in ic })
            + Least({ knowledge_teams_pts(t, r) : r \in kt })
            + Least({ breadth_pts(t, r) : r \in b }),
        greatest |->
          Greatest({ impact_contrib_size_pts(t, r, s) : r \in ics, s \in SliderValues })
            + Greatest({ comm_frame_pts(t, r) : r \in cf })
            + Greatest({ innov_complex_pts(t, r) : r \in ic })
            + Greatest({ knowledge_teams_pts(t, r) : r \in kt })
            + Greatest({ breadth_pts(t, r) : r \in b }),
        misses |->
          \/ \E r \in ics : \/ MissImpactContribution(t, r)
                            \/ \E s \in SliderValues : MissImpactSize(t, r, s)
          \/ \E r \in cf : MissCommunicationFrame(t, r)
          \/ \E r \in ic : MissInnovationComplexity(t, r)
          \/ \E r \in kt : MissKnowledgeTeams(t, r)
          \/ \E r \in b : MissBreadth(t, r) ]

\* The same of the tables as they are loaded.
LoadedOverAllowed == OverAllowed(LoadedTables)

Components ==
  { "impact_contribution_size", "communication_frame", "innovation_complexity",
    "knowledge_teams", "breadth" }

C21_WellFormedAlwaysScores ==
  (Evaluated /\ ~Malformed(ratings[1]) /\ size[1] \in SliderValues) =>
     LET r == ratings[1]
         b == breakdown[1]
         m == tables.IPE_LEVEL_MAPPING
         all == IF tables = LoadedTables THEN LoadedOverAllowed
                                         ELSE OverAllowed(tables)
     IN  /\ ~all.misses
         /\ ~MissImpactContribution(tables, r)
         /\ ~MissImpactSize(tables, r, size[1])
         /\ ~MissCommunicationFrame(tables, r)
         /\ ~MissInnovationComplexity(tables, r)
         /\ ~MissKnowledgeTeams(tables, r)
         /\ ~MissBreadth(tables, r)
         /\ b.intermediate_value \in DOMAIN tables.IMPACT_SIZE_TABLE
         /\ \A c \in Components : b[c] \in all[c]
         /\ all.least = 40
         /\ all.greatest = 842
         /\ b.total \in 40..842
         /\ ipe_score # None
         /\ ipe_score[1] \in 40..72
         /\ Cardinality(BandsOf(m, ipe_score[1])) = 1
         /\ InCaller =>
              /\ ui = "results"
              /\ level # None
              /\ level[1] \in 1..12
              /\ \A i \in BandsOf(m, ipe_score[1]) : level[1] = m[i][3]

\* The highest vector at Size 13: 347 + 95 + 140 + 240 + 20 = 842 points,
\* score 72, level 12.
C21_Witness ==
  /\ fn = "evaluate_from_structured_inputs"
  /\ ratings = Some(HighestWellFormed.ratings)
  /\ size = Some(130)
  /\ breakdown[1].total = 842
  /\ ipe_score = Some(72)
  /\ level = Some(12)
====
